---- MODULE Spec2Model ----
(***************************************************************************)
(* Bar-aligned generation windows of the Magenta scripts:                  *)
(*   Chapter02/learning_drumsRNN.py    (drums, refactored into functions)  *)
(*   Chapter02/learning-drumsRNN.py    (drums, step by step)               *)
(*   practice/learning-drumsRNN.py     (drums, practice)                   *)
(*   Chapter03/learning_melodyRNN.py   (melody)                            *)
(*   Chapter03/learning_polyphonyRNN.py (polyphony)                        *)
(*                                                                         *)
(* Python numbers are modelled as exact rationals [n, d] in lowest terms   *)
(* with d > 0, so that a division is a division and not the identity; the  *)
(* rounding of IEEE doubles is not modelled.  A Python call either returns *)
(* a value or raises: every operator that models a function yields a       *)
(* record whose status is "ok" or the name of the exception raised.        *)
(***************************************************************************)
EXTENDS Integers, Sequences, FiniteSets, TLC

\* op                 the function (or script step) that ran last
\* args               the script it belongs to and the inputs it was given
\* spb_result         what the last seconds-per-bar computation returned or raised
\* time               what the last generation-window computation returned or raised
\* generator_options  the GeneratorOptions built from that window, if any
\* prev_spb           the tempo and result of the seconds-per-bar call made before
\*                    the last one, kept to compare two calls
\* run                the script or function being run from its first statement:
\*                    its arguments, its position (pc), its local variables and
\*                    the exception that ended it, if any
\* fs                 the bundle files that exist on disk
\* generator          the sequence generator of the run
\* events             the calls to the external collaborators that succeeded so
\*                    far in the run, in order
VARIABLES op, args, spb_result, time, generator_options, prev_spb,
          run, fs, generator, events

vars == <<op, args, spb_result, time, generator_options, prev_spb,
          run, fs, generator, events>>

\* the state of a run from the first statement
pipeline == <<run, fs, generator, events>>

----------------------------------------------------------------------------
(* Bounds of the model *)

\* generation lengths range over -MaxBars..MaxBars
MaxBars == 5
\* tempos range over the multiples of 40 in -40*MaxTempoK..40*MaxTempoK
MaxTempoK == 6
\* at most MaxFiles bundle files exist on disk before a run
MaxFiles == 1
\* the generation lengths of a run range over 1..MaxRunBars
MaxRunBars == 2
\* a primer carries at most MaxTempos tempo markings
MaxTempos == 2
\* primer durations range over the multiples of 1/8 s listed in PrimerTimes,
\* up to MaxPrimerBars bars of 2 s
MaxPrimerBars == 2

----------------------------------------------------------------------------
(* Exact rational arithmetic standing for Python's float arithmetic *)

Abs(x) == IF x < 0 THEN 0 - x ELSE x

RECURSIVE GCD(_, _)
GCD(a, b) == IF b = 0 THEN a ELSE GCD(b, a % b)

\* the rational n/d (d # 0) in lowest terms with a positive denominator
Rat(n, d) ==
    LET g == GCD(Abs(n), Abs(d))
        s == IF d < 0 THEN 0 - 1 ELSE 1
    IN  [n |-> (s * n) \div g, d |-> (s * d) \div g]

R(i) == [n |-> i, d |-> 1]

Zero == R(0)

RAdd(a, b) == Rat(a.n * b.d + b.n * a.d, a.d * b.d)
RSub(a, b) == Rat(a.n * b.d - b.n * a.d, a.d * b.d)
RMul(a, b) == Rat(a.n * b.n, a.d * b.d)
\* a / b for b # 0; Python raises ZeroDivisionError for b = 0 (see TrueDiv)
RDiv(a, b) == Rat(a.n * b.d, a.d * b.n)
RLeq(a, b) == a.n * b.d <= b.n * a.d
RLt(a, b) == a.n * b.d < b.n * a.d

----------------------------------------------------------------------------
(* Results of Python calls *)

Return(v) == [status |-> "ok", value |-> v]
Raise(e) == [status |-> e, value |-> Zero]

\* Python's  a / b : raises ZeroDivisionError when b is zero (int or float)
TrueDiv(a, b) == IF b.n = 0 THEN Raise("ZeroDivisionError") ELSE Return(RDiv(a, b))

----------------------------------------------------------------------------
(* Constants of the musical resolution *)

SECONDS_PER_MINUTE == 60
DEFAULT_QUARTERS_PER_MINUTE == 120
DEFAULT_STEPS_PER_QUARTER == 4
DEFAULT_STEPS_PER_BAR == 16

\* generator.steps_per_quarter of the step-by-step scripts is read from the
\* generator built from the bundle; the drum_kit configuration sets it to 4
GeneratorStepsPerQuarter == {DEFAULT_STEPS_PER_QUARTER}

----------------------------------------------------------------------------
(* Primer sequences *)

\* Python's None passed as primer_sequence
None == [kind |-> "None", tempos |-> <<>>, total_time |-> Zero]

\* a NoteSequence message with its tempos and total_time fields
NoteSequence(tempos, total_time) ==
    [kind |-> "NoteSequence", tempos |-> tempos, total_time |-> total_time]

\* NoteSequence(): no tempo marking, no note, total_time 0
EmptyNoteSequence == NoteSequence(<<>>, Zero)

\* truth value of  `if primer_sequence:` : None is false, a protobuf message
\* defines neither __bool__ nor __len__ and is therefore true, empty or not
Truthy(primer_sequence) == primer_sequence.kind # "None"

TempoValues == {40 * k : k \in (0 - MaxTempoK)..MaxTempoK}

PrimerTempoValues == TempoValues \cap {0 - 120, 0, 80, 120, 240}

\* 0 s, 15/8 s (a 16-step drum track whose last step is silent), whole bars
PrimerTimes == {Zero, Rat(15, 8)} \cup {R(2 * j) : j \in 1..MaxPrimerBars}

TempoMarkings ==
    UNION {[1..k -> {[qpm |-> R(t)] : t \in PrimerTempoValues}] : k \in 0..MaxTempos}

NoteSequences == {NoteSequence(ts, tt) : ts \in TempoMarkings, tt \in PrimerTimes}

Primers == {None} \cup NoteSequences

Bars == (0 - MaxBars)..MaxBars

----------------------------------------------------------------------------
(* get_seconds_per_bar: the same text in the three refactored scripts *)

\* mutant: the quotient inverted, tempo / 60 instead of 60 / tempo
drums_get_seconds_per_bar_Inverted(tempo) ==
    Return(RMul(RDiv(RDiv(tempo, R(SECONDS_PER_MINUTE)), R(DEFAULT_STEPS_PER_QUARTER)),
                R(DEFAULT_STEPS_PER_BAR)))

drums_get_seconds_per_bar(tempo) ==
    LET q == TrueDiv(R(SECONDS_PER_MINUTE), tempo)
    IN  IF q.status # "ok" THEN q
        ELSE Return(RMul(RDiv(q.value, R(DEFAULT_STEPS_PER_QUARTER)),
                         R(DEFAULT_STEPS_PER_BAR)))

\* mutant: a zero tempo guarded by returning 0 instead of raising
melody_get_seconds_per_bar_ZeroGuarded(tempo) ==
    IF tempo.n = 0 THEN Return(Zero)
    ELSE Return(RMul(RDiv(RDiv(R(SECONDS_PER_MINUTE), tempo),
                          R(DEFAULT_STEPS_PER_QUARTER)),
                     R(DEFAULT_STEPS_PER_BAR)))

melody_get_seconds_per_bar(tempo) ==
    LET q == TrueDiv(R(SECONDS_PER_MINUTE), tempo)
    IN  IF q.status # "ok" THEN q
        ELSE Return(RMul(RDiv(q.value, R(DEFAULT_STEPS_PER_QUARTER)),
                         R(DEFAULT_STEPS_PER_BAR)))

\* mutant: the two resolution constants exchanged
polyphony_get_seconds_per_bar_StepsSwapped(tempo) ==
    LET q == TrueDiv(R(SECONDS_PER_MINUTE), tempo)
    IN  IF q.status # "ok" THEN q
        ELSE Return(RMul(RDiv(q.value, R(DEFAULT_STEPS_PER_BAR)),
                         R(DEFAULT_STEPS_PER_QUARTER)))

polyphony_get_seconds_per_bar(tempo) ==
    LET q == TrueDiv(R(SECONDS_PER_MINUTE), tempo)
    IN  IF q.status # "ok" THEN q
        ELSE Return(RMul(RDiv(q.value, R(DEFAULT_STEPS_PER_QUARTER)),
                         R(DEFAULT_STEPS_PER_BAR)))

\* step 3 of the step-by-step scripts:
\*   seconds_per_step = 60 / qpm / generator.steps_per_quarter
\*   seconds_per_bar = num_steps_per_bar * seconds_per_step
inline_seconds_per_bar(qpm, steps_per_quarter) ==
    LET q == TrueDiv(R(60), qpm)
    IN  IF q.status # "ok" THEN q
        ELSE LET seconds_per_step == RDiv(q.value, R(steps_per_quarter))
                 num_steps_per_bar == R(DEFAULT_STEPS_PER_BAR)
             IN  Return(RMul(num_steps_per_bar, seconds_per_step))

get_seconds_per_bar(script, tempo) ==
    CASE script = "drums" -> drums_get_seconds_per_bar(tempo)
      [] script = "melody" -> melody_get_seconds_per_bar(tempo)
      [] script = "polyphony" -> polyphony_get_seconds_per_bar(tempo)

----------------------------------------------------------------------------
(* The generation window: a dict with the keys 'start' and 'end' *)

ReturnTime(start, end) == [status |-> "ok", start |-> start, end |-> end]
RaiseTime(e) == [status |-> e, start |-> Zero, end |-> Zero]

\* mutant: the drums script's one-bar-long primer assumed in the melody script
melody_get_generation_seconds_OneBarPrimer(generation_bars, primer_sequence, start_with_primer) ==
    LET seconds_per_bar ==
            IF Truthy(primer_sequence)
            THEN IF Len(primer_sequence.tempos) = 0
                 THEN Raise("IndexError")
                 ELSE melody_get_seconds_per_bar(primer_sequence.tempos[1].qpm)
            ELSE melody_get_seconds_per_bar(R(DEFAULT_QUARTERS_PER_MINUTE))
    IN  IF seconds_per_bar.status # "ok" THEN RaiseTime(seconds_per_bar.status)
        ELSE LET start == IF start_with_primer THEN seconds_per_bar.value ELSE Zero
             IN  ReturnTime(start,
                            RAdd(start,
                                 RMul(R(generation_bars), seconds_per_bar.value)))

\* Chapter03/learning_melodyRNN.py
melody_get_generation_seconds(generation_bars, primer_sequence, start_with_primer) ==
    LET seconds_per_bar ==
            IF Truthy(primer_sequence)
            THEN IF Len(primer_sequence.tempos) = 0
                 THEN Raise("IndexError")
                 ELSE melody_get_seconds_per_bar(primer_sequence.tempos[1].qpm)
            ELSE melody_get_seconds_per_bar(R(DEFAULT_QUARTERS_PER_MINUTE))
        start ==
            IF start_with_primer
            THEN IF primer_sequence.kind = "None"
                 THEN Raise("AttributeError")
                 ELSE Return(primer_sequence.total_time)
            ELSE Return(Zero)
    IN  IF seconds_per_bar.status # "ok" THEN RaiseTime(seconds_per_bar.status)
        ELSE IF start.status # "ok" THEN RaiseTime(start.status)
        ELSE ReturnTime(start.value,
                        RAdd(start.value,
                             RMul(R(generation_bars), seconds_per_bar.value)))

\* mutant: start_with_primer ignored, the window always starts after the primer
polyphony_get_generation_seconds_AlwaysAfterPrimer(generation_bars, primer_sequence, start_with_primer) ==
    IF primer_sequence.kind = "None" THEN RaiseTime("AttributeError")
    ELSE IF Len(primer_sequence.tempos) # 0 THEN RaiseTime("UnboundLocalError")
    ELSE LET seconds_per_bar ==
                 polyphony_get_seconds_per_bar(R(DEFAULT_QUARTERS_PER_MINUTE))
             start == primer_sequence.total_time
         IN  ReturnTime(start,
                        RAdd(start, RMul(R(generation_bars), seconds_per_bar.value)))

\* mutant: the drums script's one-bar-long primer assumed in the polyphony script
polyphony_get_generation_seconds_OneBarPrimer(generation_bars, primer_sequence, start_with_primer) ==
    IF primer_sequence.kind = "None" THEN RaiseTime("AttributeError")
    ELSE IF Len(primer_sequence.tempos) # 0 THEN RaiseTime("UnboundLocalError")
    ELSE LET seconds_per_bar ==
                 polyphony_get_seconds_per_bar(R(DEFAULT_QUARTERS_PER_MINUTE))
             start == IF start_with_primer THEN seconds_per_bar.value ELSE Zero
         IN  ReturnTime(start,
                        RAdd(start, RMul(R(generation_bars), seconds_per_bar.value)))

\* Chapter03/learning_polyphonyRNN.py: seconds_per_bar is assigned only in
\* the branch taken when the primer has no tempo marking
polyphony_get_generation_seconds(generation_bars, primer_sequence, start_with_primer) ==
    IF primer_sequence.kind = "None" THEN RaiseTime("AttributeError")
    ELSE
    LET assigned == Len(primer_sequence.tempos) = 0
        seconds_per_bar ==
            IF assigned
            THEN polyphony_get_seconds_per_bar(R(DEFAULT_QUARTERS_PER_MINUTE))
            ELSE Raise("UnboundLocalError")
        start == IF start_with_primer THEN primer_sequence.total_time ELSE Zero
    IN  IF seconds_per_bar.status # "ok" THEN RaiseTime(seconds_per_bar.status)
        ELSE ReturnTime(start,
                        RAdd(start, RMul(R(generation_bars), seconds_per_bar.value)))

\* mutant: the end computed from time zero instead of from the start
drums_get_generation_times_EndFromZero(generation_length, start_with_primer) ==
    LET seconds_per_bar == drums_get_seconds_per_bar(R(DEFAULT_QUARTERS_PER_MINUTE))
        start == IF start_with_primer THEN seconds_per_bar.value ELSE Zero
    IN  ReturnTime(start, RMul(R(generation_length), seconds_per_bar.value))

\* mutant: a generation length below 1 silently raised to 1
drums_get_generation_times_LengthClamped(generation_length, start_with_primer) ==
    LET seconds_per_bar == drums_get_seconds_per_bar(R(DEFAULT_QUARTERS_PER_MINUTE))
        length == IF generation_length < 1 THEN 1 ELSE generation_length
        start == IF start_with_primer THEN seconds_per_bar.value ELSE Zero
    IN  ReturnTime(start, RAdd(start, RMul(R(length), seconds_per_bar.value)))

\* Chapter02/learning_drumsRNN.py: no primer parameter, a one-bar-long
\* primer is assumed
drums_get_generation_times(generation_length, start_with_primer) ==
    LET seconds_per_bar == drums_get_seconds_per_bar(R(DEFAULT_QUARTERS_PER_MINUTE))
    IN  IF seconds_per_bar.status # "ok" THEN RaiseTime(seconds_per_bar.status)
        ELSE LET start == IF start_with_primer THEN seconds_per_bar.value ELSE Zero
             IN  ReturnTime(start,
                            RAdd(start,
                                 RMul(R(generation_length), seconds_per_bar.value)))

\* Chapter02/learning-drumsRNN.py, steps 5 and 6
inline_generation_times(seconds_per_bar, num_bar) ==
    LET primer_start_time == Zero
        primer_end_time == RAdd(primer_start_time, seconds_per_bar)
        generation_start_time == primer_end_time
        generation_end_time ==
            RAdd(generation_start_time, RMul(seconds_per_bar, R(num_bar)))
    IN  ReturnTime(generation_start_time, generation_end_time)

----------------------------------------------------------------------------
(* GeneratorOptions *)

NoOptions == [args |-> <<>>, generate_sections |-> <<>>]

Temperatures == {R(1), Rat(6, 5)}
BeamSizes == {1, 2}

\* mutant: start_time and end_time exchanged
setup_generator_options_Swapped(t, temperature, beam_size, branch_factor, steps_per_iteration) ==
    [args |-> [temperature |-> temperature,
               beam_size |-> beam_size,
               branch_factor |-> branch_factor,
               steps_per_iteration |-> steps_per_iteration],
     generate_sections |-> <<[start_time |-> t.end, end_time |-> t.start]>>]

\* Chapter03 scripts: setup_generator_options
setup_generator_options(t, temperature, beam_size, branch_factor, steps_per_iteration) ==
    [args |-> [temperature |-> temperature,
               beam_size |-> beam_size,
               branch_factor |-> branch_factor,
               steps_per_iteration |-> steps_per_iteration],
     generate_sections |-> <<[start_time |-> t.start, end_time |-> t.end]>>]

\* Chapter02 scripts: only the temperature is set
drums_generator_options(t, temperature) ==
    [args |-> [temperature |-> temperature],
     generate_sections |-> <<[start_time |-> t.start, end_time |-> t.end]>>]

----------------------------------------------------------------------------
(* The state machine: one action per function call or script step *)

NotCalled == [status |-> "none", value |-> Zero]
NoTime == [status |-> "none", start |-> Zero, end |-> Zero]

Args(script, tempo, bars, primer, start_with_primer) ==
    [script |-> script, tempo |-> tempo, bars |-> bars, primer |-> primer,
     start_with_primer |-> start_with_primer]

\* the 16-step DrumTrack primer of the drums scripts converted at 120 qpm;
\* its total_time is set by the library: the end of its last note (15/8 s)
\* or the full bar (2 s)
DrumPrimers == {NoteSequence(<<[qpm |-> R(DEFAULT_QUARTERS_PER_MINUTE)]>>, tt) :
                   tt \in {Rat(15, 8), R(2)}}

NoPrev == [tempo |-> Zero, result |-> NotCalled]

\* os.path.join(directory, name)
Join(directory, name) == <<directory, name>>
NoPath == <<>>

NoGenerator == [created |-> FALSE, initialized |-> FALSE, bundle |-> NoPath]

Run(script, entry, model_name, generator_id, bundle_dir, generation_bars, primer_file, primer_sequence, start_with_primer, pc) ==
    [script |-> script, entry |-> entry, model_name |-> model_name,
     generator_id |-> generator_id, bundle_dir |-> bundle_dir,
     generation_bars |-> generation_bars, primer_file |-> primer_file,
     primer_sequence |-> primer_sequence,
     start_with_primer |-> start_with_primer,
     pc |-> pc, error |-> "none",
     bundle_name |-> "none", bundle_file |-> NoPath,
     found |-> FALSE, downloaded |-> NoPath]

NoRun == Run("none", "none", "none", "none", "none", 0, FALSE, None, FALSE, "idle")

Init ==
    /\ op = "none"
    /\ args = Args("none", Zero, 0, None, FALSE)
    /\ spb_result = NotCalled
    /\ time = NoTime
    /\ generator_options = NoOptions
    /\ prev_spb = NoPrev
    /\ run = NoRun
    /\ fs = {}
    /\ generator = NoGenerator
    /\ events = <<>>

\* get_seconds_per_bar(tempo) of one of the three refactored scripts
CallGetSecondsPerBar ==
    /\ op = "none"
    /\ run.pc = "idle"
    /\ UNCHANGED <<prev_spb, pipeline>>
    /\ \E script \in {"drums", "melody", "polyphony"}, t \in TempoValues :
        /\ op' = "get_seconds_per_bar"
        /\ args' = Args(script, R(t), 0, None, FALSE)
        /\ spb_result' = get_seconds_per_bar(script, R(t))
        /\ time' = NoTime
        /\ generator_options' = NoOptions

\* get_seconds_per_bar(tempo) of the same script called once more, with
\* another tempo
CallGetSecondsPerBarAgain ==
    /\ op = "get_seconds_per_bar"
    /\ prev_spb = NoPrev
    /\ \E t \in TempoValues :
        /\ prev_spb' = [tempo |-> args.tempo, result |-> spb_result]
        /\ args' = Args(args.script, R(t), 0, None, FALSE)
        /\ spb_result' = get_seconds_per_bar(args.script, R(t))
    /\ UNCHANGED <<op, time, generator_options, pipeline>>

\* melody: get_generation_seconds(generation_bars, primer_sequence, start_with_primer)
MelodyGetGenerationSeconds ==
    /\ op = "none"
    /\ run.pc = "idle"
    /\ UNCHANGED <<prev_spb, pipeline>>
    /\ \E b \in Bars, p \in Primers, swp \in BOOLEAN :
        /\ op' = "get_generation_seconds"
        /\ args' = Args("melody", Zero, b, p, swp)
        /\ time' = melody_get_generation_seconds(b, p, swp)
        /\ spb_result' = NotCalled
        /\ generator_options' = NoOptions

\* polyphony: get_generation_seconds(generation_bars, primer_sequence, start_with_primer)
PolyphonyGetGenerationSeconds ==
    /\ op = "none"
    /\ run.pc = "idle"
    /\ UNCHANGED <<prev_spb, pipeline>>
    /\ \E b \in Bars, p \in Primers, swp \in BOOLEAN :
        /\ op' = "get_generation_seconds"
        /\ args' = Args("polyphony", Zero, b, p, swp)
        /\ time' = polyphony_get_generation_seconds(b, p, swp)
        /\ spb_result' = NotCalled
        /\ generator_options' = NoOptions

\* drums: generate_drums(generation_length, input_sequence, start_with_primer)
\* calls get_generation_times(generation_length, start_with_primer); the
\* primer (input_sequence) is not passed on
DrumsGetGenerationTimes ==
    /\ op = "none"
    /\ run.pc = "idle"
    /\ UNCHANGED <<prev_spb, pipeline>>
    /\ \E b \in Bars, p \in Primers, swp \in BOOLEAN :
        /\ op' = "get_generation_times"
        /\ args' = Args("drums", Zero, b, p, swp)
        /\ time' = drums_get_generation_times(b, swp)
        /\ spb_result' = NotCalled
        /\ generator_options' = NoOptions

\* step-by-step drums script, steps 3 to 6: qpm = 120, num_bar = 3
InlineGenerationTimes ==
    /\ op = "none"
    /\ run.pc = "idle"
    /\ UNCHANGED <<prev_spb, pipeline>>
    /\ \E spq \in GeneratorStepsPerQuarter, p \in DrumPrimers :
        LET spb == inline_seconds_per_bar(R(120), spq)
        IN  /\ op' = "inline_generation_times"
            /\ args' = Args("inline", R(120), 3, p, TRUE)
            /\ spb_result' = spb
            /\ time' = inline_generation_times(spb.value, 3)
            /\ generator_options' = NoOptions

\* practice drums script, step 3 (its last statement): qpm = 120
PracticeSecondsPerBar ==
    /\ op = "none"
    /\ run.pc = "idle"
    /\ UNCHANGED <<prev_spb, pipeline>>
    /\ \E spq \in GeneratorStepsPerQuarter :
        /\ op' = "inline_seconds_per_bar"
        /\ args' = Args("practice", R(120), 0, None, FALSE)
        /\ spb_result' = inline_seconds_per_bar(R(120), spq)
        /\ time' = NoTime
        /\ generator_options' = NoOptions

\* melody and polyphony generate_sequence: the window that
\* get_generation_seconds returned goes into the generator options
SetupGeneratorOptions ==
    /\ op = "get_generation_seconds"
    /\ time.status = "ok"
    /\ \E temperature \in Temperatures, beam_size \in BeamSizes :
           generator_options' =
               setup_generator_options(time, temperature, beam_size, 1, 1)
    /\ op' = "setup_generator_options"
    /\ UNCHANGED <<args, spb_result, time, prev_spb, pipeline>>

\* generate_drums, and step 7 of the step-by-step drums script
DrumsGeneratorOptions ==
    /\ op \in {"get_generation_times", "inline_generation_times"}
    /\ time.status = "ok"
    /\ \E temperature \in Temperatures :
           generator_options' = drums_generator_options(time, temperature)
    /\ op' = "generator_options"
    /\ UNCHANGED <<args, spb_result, time, prev_spb, pipeline>>

\* the call in progress ends (it returned or raised) and its frame is
\* dropped: nothing persists between calls, which run one at a time
Finish ==
    /\ op # "none"
    /\ op' = "none"
    /\ args' = Args("none", Zero, 0, None, FALSE)
    /\ spb_result' = NotCalled
    /\ time' = NoTime
    /\ generator_options' = NoOptions
    /\ prev_spb' = NoPrev
    /\ UNCHANGED pipeline

Next ==
    \/ CallGetSecondsPerBar
    \/ CallGetSecondsPerBarAgain
    \/ MelodyGetGenerationSeconds
    \/ PolyphonyGetGenerationSeconds
    \/ DrumsGetGenerationTimes
    \/ InlineGenerationTimes
    \/ PracticeSecondsPerBar
    \/ SetupGeneratorOptions
    \/ DrumsGeneratorOptions
    \/ Finish

Spec == Init /\ [][Next]_vars

----------------------------------------------------------------------------
(* A run from the first statement: tables and inputs *)

\* GENERATOR_ID_TO_BUNDLE_NAME of the two Chapter03 scripts
melody_GENERATOR_ID_TO_BUNDLE_NAME ==
    [basic_rnn |-> "basic_rnn.mag", lookback_rnn |-> "lookback_rnn.mag",
     attention_rnn |-> "attention_rnn.mag"]

polyphony_GENERATOR_ID_TO_BUNDLE_NAME ==
    [basic_rnn |-> "basic_rnn.mag", lookback_rnn |-> "lookback_rnn.mag",
     attention_rnn |-> "attention_rnn.mag", polyphony |-> "polyphony_rnn.mag"]

GENERATOR_ID_TO_BUNDLE_NAME(script) ==
    IF script = "melody" THEN melody_GENERATOR_ID_TO_BUNDLE_NAME
    ELSE polyphony_GENERATOR_ID_TO_BUNDLE_NAME

\* MODEL_NAME_TO_SEQUENCE_GENERATOR of the two Chapter03 scripts
melody_MODEL_NAME_TO_SEQUENCE_GENERATOR ==
    [melody_rnn |-> "melody_rnn_sequence_generator",
     drums_rnn |-> "drums_rnn_sequence_generator"]

polyphony_MODEL_NAME_TO_SEQUENCE_GENERATOR ==
    [melody_rnn |-> "melody_rnn_sequence_generator",
     drums_rnn |-> "drums_rnn_sequence_generator",
     polyphony_rnn |-> "polyphony_sequence_generator"]

MODEL_NAME_TO_SEQUENCE_GENERATOR(script) ==
    IF script = "melody" THEN melody_MODEL_NAME_TO_SEQUENCE_GENERATOR
    ELSE polyphony_MODEL_NAME_TO_SEQUENCE_GENERATOR

\* the keys of generator_module.get_generator_map() of the imported module
get_generator_map(model_name) ==
    CASE model_name = "melody_rnn" ->
            {"basic_rnn", "mono_rnn", "lookback_rnn", "attention_rnn"}
      [] model_name = "drums_rnn" -> {"one_drum", "drum_kit"}
      [] model_name = "polyphony_rnn" -> {"polyphony"}
      [] OTHER -> {}

DRUM_KIT_RNN_BUNDLE_NAME == "drum_kit_rnn.mag"

GeneratorIds == {"attention_rnn", "polyphony", "drum_kit", "unknown_id"}
ModelNames == {"melody_rnn", "drums_rnn", "polyphony_rnn", "unknown_model"}
BundleDirs == {"bundles", "elsewhere"}
RunBars == 1..MaxRunBars

\* what midi_file_to_note_sequence returns for a primer file: the MIDI
\* reader always reports a tempo (120 qpm when the file sets none)
FilePrimers ==
    {NoteSequence(<<[qpm |-> R(t)]>>, tt) : t \in {80, 120}, tt \in {R(2), R(4)}}

\* the bundle files that may be on disk before the run
BundleFiles ==
    {Join(d, n) : d \in BundleDirs,
                  n \in {"attention_rnn.mag", DRUM_KIT_RNN_BUNDLE_NAME, "drum_kit_rnn"}}

InitialFileSets == {f \in SUBSET BundleFiles : Cardinality(f) <= MaxFiles}

\* mutant: initialize() left out of generate_sequence of the melody script
Order_InitializeSkipped(script) ==
    CASE script \in {"melody", "polyphony"} ->
            <<"lookup", "get_bundle", "read_bundle", "import", "get_generator",
              "get_primer", "window", "options", "generate", "return",
              "write", "done">>
      [] script \in {"drums", "inline"} ->
            <<"get_bundle", "read_bundle", "get_generator", "initialize",
              "window", "options", "generate", "write", "done">>
      [] script = "practice" ->
            <<"get_bundle", "read_bundle", "get_generator", "initialize",
              "window", "done">>

\* the statements of each script in the order of its text
Order(script) ==
    CASE script \in {"melody", "polyphony"} ->
            <<"lookup", "get_bundle", "read_bundle", "import", "get_generator",
              "initialize", "get_primer", "window", "options", "generate",
              "return", "write", "done">>
      [] script \in {"drums", "inline"} ->
            <<"get_bundle", "read_bundle", "get_generator", "initialize",
              "window", "options", "generate", "write", "done">>
      [] script = "practice" ->
            <<"get_bundle", "read_bundle", "get_generator", "initialize",
              "window", "done">>

\* the statement that follows pc
StepAfter(script, pc) ==
    LET o == Order(script)
        i == CHOOSE k \in 1..Len(o) : o[k] = pc
    IN  o[i + 1]

\* the scripts as they call themselves at module level
MainRuns ==
    {Run("melody", "main", "melody_rnn", "attention_rnn", "bundles", 2,
         TRUE, None, TRUE, "lookup"),
     Run("polyphony", "main", "melody_rnn", "attention_rnn", "bundles", 2,
         TRUE, None, TRUE, "call"),
     Run("practice", "main", "drums_rnn", "drum_kit", "bundles", 0,
         FALSE, None, FALSE, "get_bundle")}
    \cup {Run("drums", "main", "drums_rnn", "drum_kit", "bundles", 5,
              FALSE, p, TRUE, "get_bundle") : p \in DrumPrimers}
    \cup {Run("inline", "main", "drums_rnn", "drum_kit", "bundles", 3,
              FALSE, p, TRUE, "get_bundle") : p \in DrumPrimers}

\* generate_sequence and generate_drums called with other arguments
CallRuns ==
    {Run(sc, "call", m, g, d, b, pf, None, swp, "lookup") :
        sc \in {"melody", "polyphony"}, m \in ModelNames, g \in GeneratorIds,
        d \in BundleDirs, b \in RunBars, pf \in BOOLEAN, swp \in BOOLEAN}
    \cup {Run("drums", "call", "drums_rnn", "drum_kit", d, b, FALSE, None, swp,
              "get_bundle") :
             d \in BundleDirs, b \in RunBars, swp \in BOOLEAN}

----------------------------------------------------------------------------
(* A run from the first statement: the bundle *)

\* mutant: an unknown generator_id mapped to a default bundle (dict.get)
bundle_name_of_Defaulted(script, generator_id) ==
    IF generator_id \in DOMAIN GENERATOR_ID_TO_BUNDLE_NAME(script)
    THEN Return(GENERATOR_ID_TO_BUNDLE_NAME(script)[generator_id])
    ELSE Return("attention_rnn.mag")

\* bundle_name = GENERATOR_ID_TO_BUNDLE_NAME[generator_id]
bundle_name_of(script, generator_id) ==
    IF generator_id \in DOMAIN GENERATOR_ID_TO_BUNDLE_NAME(script)
    THEN Return(GENERATOR_ID_TO_BUNDLE_NAME(script)[generator_id])
    ELSE Raise("KeyError")

\* the path handed to read_bundle_file
ReadPath(script, bundle_dir, bundle_name) ==
    CASE script \in {"melody", "polyphony", "drums"} -> Join(bundle_dir, bundle_name)
      [] script = "inline" -> Join("bundles", "drum_kit_rnn.mag")
      [] script = "practice" -> Join("bundles", "drum_kit_rnn")

\* whether download_bundle is called: the refactored scripts look for the
\* file first, the step-by-step scripts always download
Downloads(script, found) ==
    IF script \in {"melody", "polyphony", "drums"} THEN ~found ELSE TRUE

\* the file download_bundle(bundle_name, target_dir) writes
DownloadPath(script, bundle_dir, bundle_name) ==
    CASE script \in {"melody", "polyphony"} -> Join(bundle_dir, bundle_name)
      [] script = "drums" -> Join("bundles", DRUM_KIT_RNN_BUNDLE_NAME)
      [] script \in {"inline", "practice"} -> Join("bundles", "drum_kit_rnn.mag")

Fail(e) == [run EXCEPT !.pc = "failed", !.error = e]
Goto(r) == [r EXCEPT !.pc = StepAfter(r.script, r.pc)]

\* the script or the function is started, on some disk contents
Start ==
    /\ run.pc = "idle"
    /\ op = "none"
    /\ \E r \in MainRuns \cup CallRuns, f \in InitialFileSets :
        /\ run' = IF r.script \in {"melody", "polyphony"}
                  THEN r
                  ELSE [r EXCEPT !.bundle_name = DRUM_KIT_RNN_BUNDLE_NAME]
        /\ fs' = f
    /\ generator' = NoGenerator
    /\ events' = <<>>
    /\ UNCHANGED <<op, args, spb_result, time, generator_options, prev_spb>>

\* polyphony script, line 350: generate_sequence(..., checkpoint=None, ...)
\* names a parameter that generate_sequence does not have
CallWithCheckpoint ==
    /\ run.pc = "call"
    /\ run' = Fail("TypeError")
    /\ UNCHANGED <<op, args, spb_result, time, generator_options, prev_spb,
                   fs, generator, events>>

\* generate_sequence: bundle_name = GENERATOR_ID_TO_BUNDLE_NAME[generator_id]
LookupBundleName ==
    /\ run.pc = "lookup"
    /\ LET n == bundle_name_of(run.script, run.generator_id)
       IN  run' = IF n.status = "ok"
                  THEN Goto([run EXCEPT !.bundle_name = n.value])
                  ELSE Fail(n.status)
    /\ UNCHANGED <<op, args, spb_result, time, generator_options, prev_spb,
                   fs, generator, events>>

\* get_bundle, get_drums_bundle, step 1 of the step-by-step scripts, up to
\* the call of read_bundle_file: the file is looked for and downloaded
FindOrDownloadBundle ==
    /\ run.pc = "get_bundle"
    /\ LET bundle_file == ReadPath(run.script, run.bundle_dir, run.bundle_name)
           found == bundle_file \in fs
           target == DownloadPath(run.script, run.bundle_dir, run.bundle_name)
       IN  IF Downloads(run.script, found)
           THEN /\ fs' = fs \cup {target}
                /\ events' = Append(events, "download")
                /\ run' = Goto([run EXCEPT !.bundle_file = bundle_file,
                                           !.found = found,
                                           !.downloaded = target])
           ELSE /\ UNCHANGED <<fs, events>>
                /\ run' = Goto([run EXCEPT !.bundle_file = bundle_file,
                                           !.found = found])
    /\ UNCHANGED <<op, args, spb_result, time, generator_options, prev_spb,
                   generator>>

\* read_bundle_file(bundle_file): fails when the file does not exist
ReadBundle ==
    /\ run.pc = "read_bundle"
    /\ IF run.bundle_file \in fs
       THEN /\ events' = Append(events, "read_bundle")
            /\ run' = Goto(run)
       ELSE /\ run' = Fail("NotFoundError")
            /\ UNCHANGED events
    /\ UNCHANGED <<op, args, spb_result, time, generator_options, prev_spb,
                   fs, generator>>


----------------------------------------------------------------------------
(* A run from the first statement: generator, window, generation, output *)

\* import_generator_module(model_name)
ImportGeneratorModule ==
    /\ run.pc = "import"
    /\ run' = IF run.model_name \in DOMAIN MODEL_NAME_TO_SEQUENCE_GENERATOR(run.script)
              THEN Goto(run)
              ELSE Fail("KeyError")
    /\ UNCHANGED <<op, args, spb_result, time, generator_options, prev_spb,
                   fs, generator, events>>

\* what evaluating the call that builds the generator raises, or "ok":
\* generate_sequence of the polyphony script passes `checkpoint`, a name it
\* never defines; generator_map[generator_id] needs the id in the map
get_generator_status(script, model_name, generator_id) ==
    CASE script = "polyphony" -> "NameError"
      [] script = "melody" ->
            IF generator_id \in get_generator_map(model_name) THEN "ok" ELSE "KeyError"
      [] OTHER -> "ok"

\* generator_map[generator_id](checkpoint=checkpoint, bundle=bundle)
get_generator(bundle) ==
    [created |-> TRUE, initialized |-> FALSE, bundle |-> bundle]

\* get_generator, the first half of get_drums_generator, step 2 of the
\* step-by-step scripts
GetGenerator ==
    /\ run.pc = "get_generator"
    /\ LET st == get_generator_status(run.script, run.model_name, run.generator_id)
       IN  IF st = "ok"
           THEN /\ generator' = get_generator(run.bundle_file)
                /\ events' = Append(events, "create_generator")
                /\ run' = Goto(run)
           ELSE /\ run' = Fail(st)
                /\ UNCHANGED <<generator, events>>
    /\ UNCHANGED <<op, args, spb_result, time, generator_options, prev_spb, fs>>

\* generator.initialize()
Initialize ==
    /\ run.pc = "initialize"
    /\ generator' = [generator EXCEPT !.initialized = TRUE]
    /\ events' = Append(events, "initialize")
    /\ run' = Goto(run)
    /\ UNCHANGED <<op, args, spb_result, time, generator_options, prev_spb, fs>>

\* get_primer_sequence(primer_file)
GetPrimerSequence ==
    /\ run.pc = "get_primer"
    /\ \E p \in IF run.primer_file THEN FilePrimers ELSE {EmptyNoteSequence} :
           run' = Goto([run EXCEPT !.primer_sequence = p])
    /\ UNCHANGED <<op, args, spb_result, time, generator_options, prev_spb,
                   fs, generator, events>>

\* the generation window of the run
RunWindowFor(r) ==
    CASE r.script = "melody" ->
            melody_get_generation_seconds(r.generation_bars, r.primer_sequence,
                                          r.start_with_primer)
      [] r.script = "polyphony" ->
            polyphony_get_generation_seconds(r.generation_bars, r.primer_sequence,
                                             r.start_with_primer)
      [] r.script = "drums" ->
            drums_get_generation_times(r.generation_bars, r.start_with_primer)
      [] r.script = "inline" ->
            inline_generation_times(
                inline_seconds_per_bar(R(120), DEFAULT_STEPS_PER_QUARTER).value, 3)
      [] r.script = "practice" -> NoTime

\* get_generation_seconds, get_generation_times, steps 3 to 6 of the
\* step-by-step script, step 3 of the practice script
RunWindow ==
    /\ run.pc = "window"
    /\ LET t == RunWindowFor(run)
       IN  IF t.status \in {"ok", "none"}
           THEN /\ time' = t
                /\ events' = Append(events, "window")
                /\ run' = Goto(run)
           ELSE /\ run' = Fail(t.status)
                /\ UNCHANGED <<time, events>>
    /\ UNCHANGED <<op, args, spb_result, generator_options, prev_spb, fs, generator>>

\* setup_generator_options, or the GeneratorOptions of the drums scripts
RunOptions ==
    /\ run.pc = "options"
    /\ \E temperature \in Temperatures :
           generator_options' =
               IF run.script \in {"melody", "polyphony"}
               THEN setup_generator_options(time, temperature, 1, 1, 1)
               ELSE drums_generator_options(time, temperature)
    /\ events' = Append(events, "options")
    /\ run' = Goto(run)
    /\ UNCHANGED <<op, args, spb_result, time, prev_spb, fs, generator>>

\* generator.generate(primer_sequence, generator_options)
Generate ==
    /\ run.pc = "generate"
    /\ events' = Append(events, "generate")
    /\ run' = Goto(run)
    /\ UNCHANGED <<op, args, spb_result, time, generator_options, prev_spb,
                   fs, generator>>

\* generate_sequence returns; only the script itself goes on to
\* download_sequence
ReturnSequence ==
    /\ run.pc = "return"
    /\ run' = IF run.entry = "main" THEN Goto(run) ELSE [run EXCEPT !.pc = "done"]
    /\ UNCHANGED <<op, args, spb_result, time, generator_options, prev_spb,
                   fs, generator, events>>

\* note_sequence_to_midi_file(sequence, midi_file)
WriteMidi ==
    /\ run.pc = "write"
    /\ events' = Append(events, "write_midi")
    /\ run' = Goto(run)
    /\ UNCHANGED <<op, args, spb_result, time, generator_options, prev_spb,
                   fs, generator>>

NextRun ==
    \/ Start
    \/ CallWithCheckpoint
    \/ LookupBundleName
    \/ FindOrDownloadBundle
    \/ ReadBundle
    \/ ImportGeneratorModule
    \/ GetGenerator
    \/ Initialize
    \/ GetPrimerSequence
    \/ RunWindow
    \/ RunOptions
    \/ Generate
    \/ ReturnSequence
    \/ WriteMidi

SpecRun == Init /\ [][NextRun]_vars

----------------------------------------------------------------------------
(* Vocabulary of the properties *)

\* a generation window has been returned by the call in progress
WindowReturned == time.status = "ok"

\* the primer is a NoteSequence carrying at least one tempo marking
HasTempoMarking(p) == p.kind = "NoteSequence" /\ Len(p.tempos) >= 1

\* the primer is NoteSequence(): no tempo marking and no duration
IsEmptyPrimer(p) == p = EmptyNoteSequence

\* the primer is a NoteSequence with some content
IsNonEmptyPrimer(p) == p.kind = "NoteSequence" /\ ~IsEmptyPrimer(p)

\* the tempo the window is specified to be computed with: the primer's first
\* tempo marking where the operation takes a primer that has one, else the
\* default tempo; the drums operation takes no primer
TempoInUse ==
    IF args.script \in {"melody", "polyphony"} /\ HasTempoMarking(args.primer)
    THEN args.primer.tempos[1].qpm
    ELSE R(DEFAULT_QUARTERS_PER_MINUTE)

Positive(r) == r.n > 0

\* (t.end - t.start) * tempo * steps_per_quarter = bars * 60 * steps_per_bar,
\* that is  t.end - t.start = bars * (60 / tempo / steps_per_quarter) * steps_per_bar
SpansBars(t, bars, tempo) ==
    RMul(RSub(t.end, t.start), RMul(tempo, R(DEFAULT_STEPS_PER_QUARTER)))
        = R(bars * SECONDS_PER_MINUTE * DEFAULT_STEPS_PER_BAR)

----------------------------------------------------------------------------
(* C1 *)

\* C1: every window returned for a generation length >= 1 and a valid
\* (positive) tempo spans exactly that many bars of the tempo in use:
\* end - start = generation_length_bars * seconds_per_bar(tempo), with the
\* primer's first tempo marking when it carries one and the default tempo
\* when it does not.
C1_WindowSpansWholeBars ==
    (WindowReturned /\ args.bars >= 1 /\ Positive(TempoInUse))
        => SpansBars(time, args.bars, TempoInUse)

\* melody, primer of 15/8 s marked 80 qpm, 3 bars after the primer: 9 s
C1_Witness ==
    /\ op = "get_generation_seconds"
    /\ args.script = "melody"
    /\ HasTempoMarking(args.primer)
    /\ args.primer.tempos[1].qpm = R(80)
    /\ args.start_with_primer
    /\ args.primer.total_time = Rat(15, 8)
    /\ args.bars = 3
    /\ WindowReturned
    /\ RSub(time.end, time.start) = R(9)

\* C1 also when the primer carries no tempo marking: polyphony, default tempo
C1_WitnessNoMarking ==
    /\ args.script = "polyphony"
    /\ args.primer = NoteSequence(<<>>, R(2))
    /\ args.start_with_primer
    /\ args.bars = 2
    /\ WindowReturned
    /\ time = ReturnTime(R(2), R(6))

----------------------------------------------------------------------------
(* C2 *)

\* C2: when the primer carries at least one (positive) tempo marking, the
\* generation-window operation of the melody and polyphony scripts returns a
\* window whose length is generation_bars times the seconds per bar of the
\* primer's first tempo marking.
C2_PrimerTempoUsed ==
    (/\ op = "get_generation_seconds"
     /\ args.bars >= 1
     /\ HasTempoMarking(args.primer)
     /\ Positive(args.primer.tempos[1].qpm))
        => (WindowReturned
            /\ SpansBars(time, args.bars, args.primer.tempos[1].qpm))

----------------------------------------------------------------------------
(* C3 *)

\* C3: when the primer is a NoteSequence without tempo marking (the empty
\* NoteSequence() included), the generation-window operation of the melody
\* and polyphony scripts does not fail and returns a window computed with
\* the default tempo.
C3_NoMarkingUsesDefaultTempo ==
    (/\ op = "get_generation_seconds"
     /\ args.bars >= 1
     /\ args.primer.kind = "NoteSequence"
     /\ Len(args.primer.tempos) = 0)
        => (WindowReturned
            /\ SpansBars(time, args.bars, R(DEFAULT_QUARTERS_PER_MINUTE)))

----------------------------------------------------------------------------
(* C4 to C6: where the window starts *)

\* the generation-window operation of one of the three refactored scripts
\* has been called (and has returned or raised)
WindowCalled == args.script \in {"melody", "polyphony", "drums"} /\ time.status # "none"

\* the length of one bar at the default tempo, 60 * 16 / (120 * 4) seconds
IsOneDefaultBar(r) ==
    RMul(r, R(DEFAULT_QUARTERS_PER_MINUTE * DEFAULT_STEPS_PER_QUARTER))
        = R(SECONDS_PER_MINUTE * DEFAULT_STEPS_PER_BAR)

\* C4 as stated: with start_with_primer and a non-empty primer, every
\* window returned for a generation length >= 1 starts at the primer's total_time, whatever its length.
C4_StartsAtPrimerEnd ==
    (WindowCalled /\ WindowReturned /\ args.start_with_primer
        /\ args.bars >= 1 /\ IsNonEmptyPrimer(args.primer))
        => time.start = args.primer.total_time

\* C4 amended: with start_with_primer and a non-empty primer, the window
\* returned by get_generation_seconds (melody, polyphony) starts at the
\* primer's total_time for every primer length; the window returned by
\* get_generation_times (drums) starts one bar of the default tempo after 0
\* whatever the primer's length.  A primer of 2.0 s at tempo 120 with 5 bars
\* gives (2.0, 12.0) in all of them.
C4_StartsAtPrimerEndOrOneBar ==
    (WindowCalled /\ WindowReturned /\ args.start_with_primer
        /\ IsNonEmptyPrimer(args.primer))
        => /\ args.script \in {"melody", "polyphony"}
                => time.start = args.primer.total_time
           /\ args.script = "drums" => IsOneDefaultBar(time.start)
           /\ (/\ args.primer.total_time = R(2)
               /\ TempoInUse = R(120)
               /\ args.bars = 5) => time = ReturnTime(R(2), R(12))

\* melody, a two-bar primer (4 s) at 120 qpm: the window starts at 4 s
C4_Witness ==
    /\ args.script = "melody"
    /\ WindowReturned
    /\ args.start_with_primer
    /\ HasTempoMarking(args.primer)
    /\ args.primer.tempos[1].qpm = R(120)
    /\ args.primer.total_time = R(4)
    /\ time.start = R(4)

\* C5: with start_with_primer false every returned window starts at 0,
\* whatever the primer (absent, empty, with or without tempo marking); at
\* tempo 120 with 3 bars the window is (0.0, 6.0).
C5_StartsAtZeroWithoutPrimer ==
    (WindowCalled /\ WindowReturned /\ ~args.start_with_primer)
        => /\ time.start = Zero
           /\ (TempoInUse = R(120) /\ args.bars = 3) => time = ReturnTime(Zero, R(6))

\* polyphony, a 2 s primer without tempo marking, 3 bars, flag off: (0, 6)
C5_Witness ==
    /\ args.script = "polyphony"
    /\ WindowReturned
    /\ ~args.start_with_primer
    /\ args.primer = NoteSequence(<<>>, R(2))
    /\ args.bars = 3
    /\ time = ReturnTime(Zero, R(6))

\* C6 as stated: with start_with_primer and an empty primer, or no primer
\* given, every window returned for a generation length >= 1 starts at 0.
C6_EmptyPrimerStartsAtZero ==
    (WindowCalled /\ WindowReturned /\ args.start_with_primer
        /\ args.bars >= 1
        /\ (IsEmptyPrimer(args.primer) \/ args.primer = None))
        => time.start = Zero

\* C6 amended: with start_with_primer and an empty primer, the window
\* returned by get_generation_seconds (melody, polyphony) starts at 0, the
\* empty primer's total_time; get_generation_times (drums) takes no primer
\* and its window starts one bar of the default tempo after 0 even when the
\* primer is empty or not given.
C6_EmptyPrimerStartsAtZeroOrOneBar ==
    (WindowCalled /\ WindowReturned /\ args.start_with_primer
        /\ (IsEmptyPrimer(args.primer) \/ args.primer = None))
        => /\ args.script \in {"melody", "polyphony"} => time.start = Zero
           /\ args.script = "drums" => IsOneDefaultBar(time.start)

\* polyphony, NoteSequence(), flag on, 2 bars: (0, 4)
C6_Witness ==
    /\ args.script = "polyphony"
    /\ WindowReturned
    /\ args.start_with_primer
    /\ IsEmptyPrimer(args.primer)
    /\ args.bars = 2
    /\ time = ReturnTime(Zero, R(4))

----------------------------------------------------------------------------
(* C7, C10: seconds per bar *)

\* get_seconds_per_bar of one of the three refactored scripts has been called
SecondsPerBarCalled == op = "get_seconds_per_bar"

\* r * tempo * steps_per_quarter = 60 * steps_per_bar, that is
\* r = (60 / tempo / steps_per_quarter) * steps_per_bar
IsSecondsPerBar(r, tempo) ==
    RMul(r, RMul(tempo, R(DEFAULT_STEPS_PER_QUARTER)))
        = R(SECONDS_PER_MINUTE * DEFAULT_STEPS_PER_BAR)

\* C7 as stated: get_seconds_per_bar fails for every tempo <= 0 and never
\* returns a value for such a tempo.
C7_NonPositiveTempoFails ==
    (SecondsPerBarCalled /\ args.tempo.n <= 0) => spb_result.status # "ok"

\* C7 amended: get_seconds_per_bar fails (ZeroDivisionError) for tempo = 0
\* and returns no value for it; for every negative tempo it does not fail
\* and returns the negative value (60 / tempo / steps_per_quarter) *
\* steps_per_bar.
C7_ZeroTempoFailsNegativeTempoReturns ==
    SecondsPerBarCalled
        => /\ args.tempo.n = 0 => spb_result = Raise("ZeroDivisionError")
           /\ args.tempo.n < 0
                => /\ spb_result.status = "ok"
                   /\ spb_result.value.n < 0
                   /\ IsSecondsPerBar(spb_result.value, args.tempo)

\* melody, tempo 0: ZeroDivisionError
C7_Witness ==
    /\ SecondsPerBarCalled
    /\ args.script = "melody"
    /\ args.tempo = Zero
    /\ spb_result.status = "ZeroDivisionError"

\* C7, the negative case: tempo -120 returns -2
C7_WitnessNegative ==
    /\ SecondsPerBarCalled
    /\ args.tempo = R(0 - 120)
    /\ spb_result = Return(R(0 - 2))

\* C10: for every tempo > 0 every implementation of seconds-per-bar (the
\* three get_seconds_per_bar and the inline computation of the step-by-step
\* scripts) returns (60 / tempo / steps_per_quarter) * steps_per_bar; at
\* tempo 120 with 4 steps per quarter and 16 steps per bar that is exactly 2.
C10_SecondsPerBarFormula ==
    (/\ op \in {"get_seconds_per_bar", "inline_seconds_per_bar",
                "inline_generation_times"}
     /\ Positive(args.tempo))
        => /\ spb_result.status = "ok"
           /\ IsSecondsPerBar(spb_result.value, args.tempo)
           /\ args.tempo = R(120) => spb_result.value = R(2)

\* polyphony, tempo 120: 2 seconds
C10_Witness ==
    /\ SecondsPerBarCalled
    /\ args.script = "polyphony"
    /\ args.tempo = R(120)
    /\ spb_result = Return(R(2))

\* C10 on a tempo that does not divide 240: 160 qpm gives 3/2 s
C10_WitnessFraction ==
    /\ SecondsPerBarCalled
    /\ args.tempo = R(160)
    /\ spb_result = Return(Rat(3, 2))

----------------------------------------------------------------------------
(* C8, C9: degenerate windows *)

\* the call in progress, made again with another generation length
WindowFor(script, bars, primer, start_with_primer) ==
    CASE script = "melody" ->
            melody_get_generation_seconds(bars, primer, start_with_primer)
      [] script = "polyphony" ->
            polyphony_get_generation_seconds(bars, primer, start_with_primer)
      [] script = "drums" -> drums_get_generation_times(bars, start_with_primer)

\* C8 as stated: called with a generation length < 1 the generation-window
\* operation fails instead of returning a degenerate or empty window.
C8_ShortLengthFails ==
    (WindowCalled /\ args.bars < 1) => time.status # "ok"

\* C8 amended: the generation-window operation does not check the generation
\* length: called with a length < 1 it returns or raises exactly as it does
\* with length 1 for the same primer and flag, and a returned window has
\* end - start = length * seconds_per_bar: empty (end = start) for length 0,
\* and with end before start for a negative length and a positive tempo.
C8_ShortLengthReturnsDegenerateWindow ==
    (WindowCalled /\ args.bars < 1)
        => /\ time.status
                = WindowFor(args.script, 1, args.primer, args.start_with_primer).status
           /\ WindowReturned
                => /\ SpansBars(time, args.bars, TempoInUse)
                   /\ args.bars = 0 => time.end = time.start
                   /\ (args.bars < 0 /\ Positive(TempoInUse))
                        => RLt(time.end, time.start)

\* drums, length -1, flag off: (0, -2)
C8_Witness ==
    /\ args.script = "drums"
    /\ args.bars = 0 - 1
    /\ ~args.start_with_primer
    /\ time = ReturnTime(Zero, R(0 - 2))

\* the generate_sections of the options built in the call in progress
Sections == generator_options.generate_sections

----------------------------------------------------------------------------
(* C11 *)

\* C11: for every tempo > 0 get_seconds_per_bar returns a value > 0, and of
\* two calls with tempos 0 < t1 < t2 the one with the greater tempo returns
\* the strictly smaller value (strictly decreasing in tempo).
C11_PositiveAndDecreasing ==
    SecondsPerBarCalled
        => /\ Positive(args.tempo)
                => (spb_result.status = "ok" /\ Positive(spb_result.value))
           /\ (/\ prev_spb # NoPrev
               /\ Positive(prev_spb.tempo)
               /\ RLt(prev_spb.tempo, args.tempo))
                => /\ prev_spb.result.status = "ok"
                   /\ spb_result.status = "ok"
                   /\ RLt(spb_result.value, prev_spb.result.value)

\* drums, 160 qpm after 80 qpm: 3/2 s after 3 s
C11_Witness ==
    /\ SecondsPerBarCalled
    /\ args.script = "drums"
    /\ prev_spb = [tempo |-> R(80), result |-> Return(R(3))]
    /\ args.tempo = R(160)
    /\ spb_result = Return(Rat(3, 2))

----------------------------------------------------------------------------
(* C12 to C15: runs from the first statement *)

Terminated == run.pc \in {"done", "failed"}

\* the steps named by C12 among the events of the run
Milestones ==
    SelectSeq(events,
              LAMBDA e : e \in {"read_bundle", "create_generator", "options",
                               "generate", "write_midi"})

\* C12: every script run from its first statement obtains the bundle,
\* instantiates the generator, configures the window and the sampling
\* parameters, generates and writes the MIDI file, in this order, and
\* reaches the last step.
C12_ScriptsRunAllSteps ==
    (run.entry = "main" /\ Terminated)
        => /\ run.pc = "done"
           /\ Milestones = <<"read_bundle", "create_generator", "options",
                             "generate", "write_midi">>

\* the melody script does run the five steps to the end
C12_MelodyRunsAllSteps ==
    /\ run.script = "melody"
    /\ run.entry = "main"
    /\ run.pc = "done"
    /\ Milestones = <<"read_bundle", "create_generator", "options",
                      "generate", "write_midi">>

\* C13: the path passed to read_bundle_file is always the path of a file
\* that exists after the download step, for every bundle_dir.
C13_ReadsExistingBundle ==
    run.pc = "read_bundle" => run.bundle_file \in fs

\* Before(i, e): the event e happened before the i-th event of the run
Before(i, e) == \E j \in 1..(i - 1) : events[j] = e

\* C14: get_generator returns a generator on which initialize() has not been
\* called; generate() is called only after initialize() has been called on
\* the generator of the run, and initialize() only after the generator was
\* built from the bundle that was read.
C14_GenerateAfterInitialize ==
    /\ (run.script \in {"melody", "polyphony"} /\ run.pc = "initialize")
           => (generator.created /\ ~generator.initialized)
    /\ \A i \in 1..Len(events) :
           /\ events[i] = "generate"
                => (Before(i, "initialize") /\ generator.initialized)
           /\ events[i] = "initialize"
                => (Before(i, "create_generator") /\ Before(i, "read_bundle"))
           /\ events[i] = "create_generator" => Before(i, "read_bundle")
    /\ generator.initialized => generator.created
    /\ generator.created => generator.bundle = run.bundle_file
    /\ run.pc = "generate" => generator.initialized

\* generate_sequence of the melody script called and returned
C14_Witness ==
    /\ run.script = "melody"
    /\ run.entry = "call"
    /\ run.pc = "done"
    /\ generator.initialized
    /\ \E i \in 1..Len(events) : events[i] = "generate"

BadGeneratorId ==
    /\ run.script \in {"melody", "polyphony"}
    /\ run.entry = "call"
    /\ run.generator_id \notin DOMAIN GENERATOR_ID_TO_BUNDLE_NAME(run.script)

BadModelName ==
    /\ run.script \in {"melody", "polyphony"}
    /\ run.entry = "call"
    /\ run.model_name \notin DOMAIN MODEL_NAME_TO_SEQUENCE_GENERATOR(run.script)

\* C15 as stated: with an unknown generator_id or an unknown model_name
\* generate_sequence fails with a lookup error before any bundle has been
\* downloaded or read and before any generator has been created.
C15_LookupFailsBeforeAnything ==
    (BadGeneratorId \/ BadModelName)
        => /\ events = <<>>
           /\ ~generator.created
           /\ Terminated => (run.pc = "failed" /\ run.error = "KeyError")

\* C15 amended: with an unknown generator_id generate_sequence fails with
\* KeyError before any bundle is downloaded or read and before any generator
\* is created; with a known generator_id and an unknown model_name it fails
\* with KeyError only after the bundle has been downloaded (when missing)
\* and read, and before any generator is created or initialized.
C15_LookupFailsBeforeGenerator ==
    /\ BadGeneratorId
        => /\ events = <<>>
           /\ ~generator.created
           /\ Terminated => (run.pc = "failed" /\ run.error = "KeyError")
    /\ (BadModelName /\ ~BadGeneratorId)
        => /\ \A i \in 1..Len(events) : events[i] \in {"download", "read_bundle"}
           /\ ~generator.created
           /\ Terminated
                => /\ run.pc = "failed"
                   /\ run.error = "KeyError"
                   /\ Len(events) >= 1
                   /\ events[Len(events)] = "read_bundle"

\* melody, unknown model_name, bundle missing: downloaded and read, then KeyError
C15_Witness ==
    /\ run.script = "melody"
    /\ run.model_name = "unknown_model"
    /\ run.generator_id = "attention_rnn"
    /\ run.pc = "failed"
    /\ run.error = "KeyError"
    /\ events = <<"download", "read_bundle">>

\* unknown generator_id: KeyError at the first statement
C15_WitnessGeneratorId ==
    /\ BadGeneratorId
    /\ run.pc = "failed"
    /\ run.error = "KeyError"
    /\ events = <<>>

====
